---- MODULE Spec2Model ----
(***************************************************************************)
(* State-machine model of PETCalculation.py (pet_dashboard).               *)
(*                                                                         *)
(* Three specifications share the variables below.                         *)
(*   SpecPet   calculate_pet (lines 41-144) on a full 8760-hour year.      *)
(*   Spec      the script body (lines 380-417) on a bounded sample of the  *)
(*             year's hours: split, ideal strategy, filter, aggregation.   *)
(*   SpecIdeal the ideal-strategy part of the script (lines 385-397) on a  *)
(*             grid of PET values.                                         *)
(*                                                                         *)
(* A DataFrame is a sequence of rows (records); a pandas Series or a       *)
(* ladybug collection is a sequence of values, index i holding hour i-1.   *)
(* Timestamps are hours since 2025-01-01 00:00.                            *)
(* The ladybug estimators are external; SpecPet models their results as    *)
(* free terms (the tuple of the arguments), so that data flow is decided   *)
(* by the code and by nothing else.  The script specifications take PET    *)
(* values as numbers, in tenths of a degree.                               *)
(***************************************************************************)
EXTENDS Integers, Sequences, FiniteSets, TLC

VARIABLES
    pc,                 \* position in calculate_pet / in the script
    error,              \* "none" or the exception that ended the run
    \* ---- calculate_pet
    epw_data,           \* [location, weather]: the loaded EPW object
    met, clo,           \* the two number_input values
    zeros,              \* the four zero collections of lines 56-70
    exposed_mrt, sheltered_mrt,
    fully_exposed, sun_sheltered, wind_sheltered, fully_sheltered,
    datetime_range, sun_up,
    df,                 \* the DataFrame calculate_pet builds and returns
    \* ---- script body
    pet_df, day_pet_df, night_pet_df,
    time_selection, strategy_selection,
    data_df, monthly_comfort

petVars == <<epw_data, met, clo, zeros, exposed_mrt, sheltered_mrt,
             fully_exposed, sun_sheltered, wind_sheltered, fully_sheltered,
             datetime_range, sun_up, df>>
scriptVars == <<pet_df, day_pet_df, night_pet_df, time_selection,
                strategy_selection, data_df, monthly_comfort>>
vars == <<pc, error, petVars, scriptVars>>

None == "None"
\* A name of the script that no assignment has bound yet.
Unbound == [bound |-> FALSE, rows |-> << >>]
\* monthly_comfort before the call of line 413.
NoTable == [columns |-> << >>, rows |-> << >>]

----------------------------------------------------------------------------
(* Bounds of the model.                                                    *)

NumLocations == 2       \* locations 1..NumLocations
NumWeatherYears == 2    \* weather years 1..NumWeatherYears
MaxRows == 3            \* rows of the sampled pet_df in Spec

----------------------------------------------------------------------------
(* Calendar of the reference year 2025 (pandas date_range, .dt.month).     *)

HoursInYear == 8760
HoursPerDay == 24

DaysInMonth == <<31, 28, 31, 30, 31, 30, 31, 31, 30, 31, 30, 31>>

RECURSIVE DaysBefore(_)
DaysBefore(m) == IF m <= 1 THEN 0 ELSE DaysBefore(m - 1) + DaysInMonth[m - 1]

\* Timestamp('2025-mm-dd hh:00') as hours since the start of 2025.
Timestamp(m, d, h) == (DaysBefore(m) + (d - 1)) * HoursPerDay + h

start_date == Timestamp(1, 1, 0)
end_date == Timestamp(12, 31, 23)

\* Faulty variant of date_range: the end point is left out.
date_range_exclusive(start, end) ==
    IF end <= start THEN << >> ELSE [i \in 1..(end - start) |-> start + (i - 1)]

\* pd.date_range(start, end, freq='h'): start, start+1h, ... while <= end.
date_range(start, end) ==
    IF end < start THEN << >> ELSE [i \in 1..(end - start + 1) |-> start + (i - 1)]

\* Series.dt.month of a timestamp of 2025.
MonthOf(t) ==
    CHOOSE m \in 1..12 :
        /\ DaysBefore(m) * HoursPerDay <= t
        /\ t < (DaysBefore(m) + DaysInMonth[m]) * HoursPerDay

----------------------------------------------------------------------------
(* The EPW object: location and six hourly series of one year.  A weather  *)
(* year w and a location l stand for the file's content; the series are    *)
(* fixed functions of (w, hour).                                           *)

Locations == 1..NumLocations
WeatherYears == 1..NumWeatherYears

\* Hour of the day of hour-of-year hoy (0-based).
HourOfDay(hoy) == hoy % HoursPerDay

Hours == 1..HoursInYear

\* The value of each series at index i (hour-of-year i - 1) of weather year w.
TemperatureAt(w, i) == 10 * w + (IF HourOfDay(i - 1) \in 8..17 THEN 5 ELSE 0)
HumidityAt(w, i) == 40 + 10 * ((i + w) % 3)
WindAt(w, i) == (i + w) % 3
DirectNormalAt(w, i) == IF HourOfDay(i - 1) \in 8..16 THEN 100 * w ELSE 0
DiffuseHorizontalAt(w, i) == IF HourOfDay(i - 1) \in 7..17 THEN 20 + w ELSE 0
HorizontalInfraredAt(w, i) == 300 + w + (i % 2)

dry_bulb_temperature(e) == [i \in Hours |-> TemperatureAt(e.weather, i)]
relative_humidity(e) == [i \in Hours |-> HumidityAt(e.weather, i)]
wind_speed(e) == [i \in Hours |-> WindAt(e.weather, i)]
direct_normal_radiation(e) == [i \in Hours |-> DirectNormalAt(e.weather, i)]
diffuse_horizontal_radiation(e) == [i \in Hours |-> DiffuseHorizontalAt(e.weather, i)]
horizontal_infrared_radiation_intensity(e) ==
    [i \in Hours |-> HorizontalInfraredAt(e.weather, i)]

\* HourlyContinuousCollection(header, [0]*8760)
ZeroCollection == [i \in 1..HoursInYear |-> 0]

----------------------------------------------------------------------------
(* The external estimators.  A result is the term of its arguments: two    *)
(* results are equal exactly when they were computed from the same values. *)

\* One hour of OutdoorSolarCal(...).mean_radiant_temperature.
MeanRadiantTemperature(location, i, dn, dh, ir, ta) ==
    <<"MRT", location, i, dn, dh, ir, ta>>

\* OutdoorSolarCal(location, dir_norm, diff_horiz, horiz_ir, temperature,
\*                 fraction_body_exposed = 1, sky_exposure = 1)
OutdoorSolarCal(location, dir_norm, diff_horiz, horiz_ir, temperature) ==
    [i \in 1..Len(temperature) |->
        MeanRadiantTemperature(location, i, dir_norm[i], diff_horiz[i],
                               horiz_ir[i], temperature[i])]

\* One hour of PET(...).physiologic_equivalent_temperature.
PhysiologicEquivalentTemperature(ta, rh, mrt, v, m, c) ==
    <<"PET", ta, rh, mrt, v, m, c>>

\* One hour of PET(...).pet_category: an integer code in -4..4, a fixed
\* function of the PET value.
PetCategoryCode(p) ==
    ((p[2] + (p[3] \div 10) + p[4][5] + p[4][7] + 2 * p[5]) % 9) - 4

\* PET(temperature, humidity, mrt, wind, met_rate=met, clo_value=clo)
PET(temperature, humidity, mrt, wind, m, c) ==
    LET value(i) == PhysiologicEquivalentTemperature(
                        temperature[i], humidity[i], mrt[i], wind[i], m, c)
    IN  [physiologic_equivalent_temperature |->
            [i \in 1..Len(temperature) |-> value(i)],
         pet_category |->
            [i \in 1..Len(temperature) |-> PetCategoryCode(value(i))]]

\* Sunpath.from_location(location).calculate_sun_from_hoy(hoy).is_during_day
is_during_day(location, hoy) ==
    HourOfDay(hoy) \in (7 - location)..(16 + location)

----------------------------------------------------------------------------
(* calculate_pet(_epw_file, met, clo)                                      *)

temp_map ==
    [c \in -4..4 |->
        CASE c = -4 -> "Very Cold"
          [] c = -3 -> "Cold"
          [] c = -2 -> "Cool"
          [] c = -1 -> "Slightly Cool"
          [] c = 0 -> "Comfort"
          [] c = 1 -> "Slightly Warm"
          [] c = 2 -> "Warm"
          [] c = 3 -> "Hot"
          [] c = 4 -> "Very Hot"]

\* number_input has no minimum: any number may be entered.
MetValues == {0, 1}
CloValues == {-1, 0}

\* Values of the locals of calculate_pet before their assignment.
NoZeros == [wind |-> << >>, normal_rad |-> << >>, diffused_rad |-> << >>,
            horizontal_infra |-> << >>]
NoPET == [physiologic_equivalent_temperature |-> << >>, pet_category |-> << >>]

InvalidParameter(m, c) == m <= 0 \/ c < 0

ScriptIdle ==
    /\ pet_df = << >> /\ day_pet_df = << >> /\ night_pet_df = << >>
    /\ time_selection = None /\ strategy_selection = None
    /\ data_df = Unbound /\ monthly_comfort = NoTable

InitPet ==
    /\ pc = "zeros"
    /\ error = "none"
    /\ epw_data \in [location : Locations, weather : WeatherYears]
    /\ met \in MetValues
    /\ clo \in CloValues
    /\ zeros = NoZeros
    /\ exposed_mrt = << >> /\ sheltered_mrt = << >>
    /\ fully_exposed = NoPET /\ sun_sheltered = NoPET
    /\ wind_sheltered = NoPET /\ fully_sheltered = NoPET
    /\ datetime_range = << >> /\ sun_up = << >>
    /\ df = << >>
    /\ ScriptIdle

\* Lines 56-70: the four zero collections.
ZeroSeries ==
    /\ pc = "zeros"
    /\ zeros' = [wind |-> ZeroCollection,
                 normal_rad |-> ZeroCollection,
                 diffused_rad |-> ZeroCollection,
                 horizontal_infra |-> ZeroCollection]
    /\ pc' = "mrt"
    /\ UNCHANGED <<error, epw_data, met, clo, exposed_mrt, sheltered_mrt,
                   fully_exposed, sun_sheltered, wind_sheltered, fully_sheltered,
                   datetime_range, sun_up, df, scriptVars>>

\* Line 75.
ExposedMRT(e) ==
    OutdoorSolarCal(e.location, direct_normal_radiation(e),
                    diffuse_horizontal_radiation(e),
                    horizontal_infrared_radiation_intensity(e),
                    dry_bulb_temperature(e))

\* Faulty variant of ShelteredMRT: the infrared is zeroed as well
\* (zero_horizontal_infra of line 70 passed on).
ShelteredMRTZeroInfrared(e, z) ==
    OutdoorSolarCal(e.location, z.normal_rad, z.diffused_rad,
                    z.horizontal_infra, dry_bulb_temperature(e))

\* Line 76.
ShelteredMRT(e, z) ==
    OutdoorSolarCal(e.location, z.normal_rad, z.diffused_rad,
                    horizontal_infrared_radiation_intensity(e),
                    dry_bulb_temperature(e))

\* Lines 74-76: the two MRTs, computed whatever met and clo are.
CalculateMRT ==
    /\ pc = "mrt"
    /\ exposed_mrt' = ExposedMRT(epw_data)
    /\ sheltered_mrt' = ShelteredMRT(epw_data, zeros)
    /\ pc' = "pet"
    /\ UNCHANGED <<error, epw_data, met, clo, zeros,
                   fully_exposed, sun_sheltered, wind_sheltered, fully_sheltered,
                   datetime_range, sun_up, df, scriptVars>>

\* Lines 80-83: the (MRT, wind) pair of each scenario.
FullyExposedPET(e, emrt, smrt, z, m, c) ==
    PET(dry_bulb_temperature(e), relative_humidity(e), emrt, wind_speed(e), m, c)
SunShelteredPET(e, emrt, smrt, z, m, c) ==
    PET(dry_bulb_temperature(e), relative_humidity(e), smrt, wind_speed(e), m, c)
WindShelteredPET(e, emrt, smrt, z, m, c) ==
    PET(dry_bulb_temperature(e), relative_humidity(e), emrt, z.wind, m, c)
FullyShelteredPET(e, emrt, smrt, z, m, c) ==
    PET(dry_bulb_temperature(e), relative_humidity(e), smrt, z.wind, m, c)

\* Lines 79-95: the four PET collections.  calculate_pet checks neither met
\* nor clo; they reach the estimator as they were entered.
CalculatePET ==
    /\ pc = "pet"
    /\ fully_exposed' =
          FullyExposedPET(epw_data, exposed_mrt, sheltered_mrt, zeros, met, clo)
    /\ sun_sheltered' =
          SunShelteredPET(epw_data, exposed_mrt, sheltered_mrt, zeros, met, clo)
    /\ wind_sheltered' =
          WindShelteredPET(epw_data, exposed_mrt, sheltered_mrt, zeros, met, clo)
    /\ fully_sheltered' =
          FullyShelteredPET(epw_data, exposed_mrt, sheltered_mrt, zeros, met, clo)
    /\ pc' = "dates"
    /\ UNCHANGED <<error, epw_data, met, clo, zeros, exposed_mrt, sheltered_mrt,
                   datetime_range, sun_up, df, scriptVars>>

\* Line 80, the other outcome the external estimator may have on a met or
\* clo outside its domain: it raises, and calculate_pet propagates.
PETRaises ==
    /\ pc = "pet"
    /\ InvalidParameter(met, clo)
    /\ error' = "InvalidParameter"
    /\ pc' = "done"
    /\ UNCHANGED <<epw_data, met, clo, zeros, exposed_mrt, sheltered_mrt,
                   fully_exposed, sun_sheltered, wind_sheltered, fully_sheltered,
                   datetime_range, sun_up, df, scriptVars>>

\* Lines 97-100.
DateRange ==
    /\ pc = "dates"
    /\ datetime_range' = date_range(start_date, end_date)
    /\ pc' = "sun"
    /\ UNCHANGED <<error, epw_data, met, clo, zeros, exposed_mrt, sheltered_mrt,
                   fully_exposed, sun_sheltered, wind_sheltered, fully_sheltered,
                   sun_up, df, scriptVars>>

\* Lines 102-110: for i in range(0, 8760): sun_up.append(...is_during_day)
SunLoop(location) ==
    [i \in 1..HoursInYear |-> is_during_day(location, i - 1)]

SunUp ==
    /\ pc = "sun"
    /\ sun_up' = SunLoop(epw_data.location)
    /\ pc' = "frame"
    /\ UNCHANGED <<error, epw_data, met, clo, zeros, exposed_mrt, sheltered_mrt,
                   fully_exposed, sun_sheltered, wind_sheltered, fully_sheltered,
                   datetime_range, df, scriptVars>>

PetColumns == <<"Fully Exposed PET", "Sun Sheltered PET",
                "Wind Sheltered PET", "Fully Sheltered PET">>
CategoryColumns == <<"Fully Exposed Category", "Sun Sheltered Category",
                     "Wind Sheltered Category", "Fully Sheltered Category">>

\* pd.DataFrame({...}) of lines 112-123: one row per index; columns of
\* different lengths raise ValueError.
DataFrame(dates, sun, fe, ss, ws, fs) ==
    LET lens == {Len(dates), Len(sun)} \cup
                {Len(x.physiologic_equivalent_temperature) : x \in {fe, ss, ws, fs}} \cup
                {Len(x.pet_category) : x \in {fe, ss, ws, fs}}
    IN  IF Cardinality(lens) # 1
        THEN [ok |-> FALSE, rows |-> << >>]
        ELSE [ok |-> TRUE,
              rows |->
                [i \in 1..Len(dates) |->
                    [Date |-> dates[i],
                     Sun |-> sun[i],
                     PET |-> <<fe.physiologic_equivalent_temperature[i],
                               ss.physiologic_equivalent_temperature[i],
                               ws.physiologic_equivalent_temperature[i],
                               fs.physiologic_equivalent_temperature[i]>>,
                     Category |-> <<fe.pet_category[i], ss.pet_category[i],
                                    ws.pet_category[i], fs.pet_category[i]>>]]]

\* df[comfort_column_names].replace(temp_map), lines 125-142: a value that
\* is a key of temp_map becomes its label, any other value stays.
ReplaceCategories(frame) ==
    [i \in 1..Len(frame) |->
        [frame[i] EXCEPT !.Category =
            [k \in 1..4 |-> IF @[k] \in DOMAIN temp_map THEN temp_map[@[k]] ELSE @[k]]]]

\* Lines 112-144: build the frame, relabel the categories, return it.
BuildFrame ==
    /\ pc = "frame"
    /\ LET frame == DataFrame(datetime_range, sun_up, fully_exposed, sun_sheltered,
                              wind_sheltered, fully_sheltered)
       IN  IF frame.ok
           THEN /\ df' = ReplaceCategories(frame.rows)
                /\ error' = error
           ELSE /\ error' = "ValueError"
                /\ df' = df
    /\ pc' = "done"
    /\ UNCHANGED <<epw_data, met, clo, zeros, exposed_mrt, sheltered_mrt,
                   fully_exposed, sun_sheltered, wind_sheltered, fully_sheltered,
                   datetime_range, sun_up, scriptVars>>

NextPet ==
    \/ ZeroSeries
    \/ CalculateMRT
    \/ CalculatePET
    \/ PETRaises
    \/ DateRange
    \/ SunUp
    \/ BuildFrame

SpecPet == InitPet /\ [][NextPet]_vars

----------------------------------------------------------------------------
(* The script body, lines 380-417, run after calculate_pet has returned.   *)
(* pet_df is a sample of the rows of the year table: some hours of the     *)
(* year in increasing order, each with its sun flag, four PET values (in   *)
(* tenths of a degree) and four category labels.  As in every year table,  *)
(* it holds at least one daytime and one night-time row.                   *)

NeutralTarget == 205        \* 20.5, in tenths of a degree

Abs(x) == IF x < 0 THEN -x ELSE x

RECURSIVE SortedSeq(_)
SortedSeq(S) ==
    IF S = {} THEN << >>
    ELSE LET lo == CHOOSE x \in S : \A y \in S : x <= y
         IN  <<lo>> \o SortedSeq(S \ {lo})

TimeOptions == {"Daytime", "Nighttime", "Entire Day"}
StrategyOptions == {CategoryColumns[k] : k \in 1..4}

\* Index of a column name in a list of column names.
ColumnIndex(columns, name) == CHOOSE k \in 1..Len(columns) : columns[k] = name

InitScript(hours, pets, cats, times, strategies, minRows, maxRows) ==
    /\ pc = "month"
    /\ error = "none"
    /\ epw_data \in [location : {1}, weather : {1}]
    /\ met = 1 /\ clo = 1
    /\ zeros = NoZeros
    /\ exposed_mrt = << >> /\ sheltered_mrt = << >>
    /\ fully_exposed = NoPET /\ sun_sheltered = NoPET
    /\ wind_sheltered = NoPET /\ fully_sheltered = NoPET
    /\ datetime_range = << >> /\ sun_up = << >>
    /\ df = << >>
    /\ \E H \in SUBSET hours :
         /\ Cardinality(H) >= minRows
         /\ Cardinality(H) <= maxRows
         /\ \E sun \in [H -> BOOLEAN], pet \in [H -> pets], cat \in [H -> cats] :
              /\ \E h \in H : sun[h]
              /\ \E h \in H : ~sun[h]
              /\ pet_df = LET order == SortedSeq(H)
                          IN  [i \in 1..Len(order) |->
                                 [Date |-> order[i],
                                  Sun |-> sun[order[i]],
                                  PET |-> pet[order[i]],
                                  Category |-> cat[order[i]]]]
    /\ day_pet_df = << >> /\ night_pet_df = << >>
    /\ time_selection \in {<<t>> : t \in times}
    /\ strategy_selection \in strategies
    /\ data_df = Unbound
    /\ monthly_comfort = NoTable

\* Line 385: pet_df['Month'] = pet_df['Date'].dt.month
WithMonth(frame) ==
    [i \in 1..Len(frame) |->
        [Date |-> frame[i].Date, Sun |-> frame[i].Sun, PET |-> frame[i].PET,
         Category |-> frame[i].Category, Month |-> MonthOf(frame[i].Date)]]

AddMonth ==
    /\ pc = "month"
    /\ pet_df' = WithMonth(pet_df)
    /\ pc' = "split"
    /\ UNCHANGED <<error, petVars, day_pet_df, night_pet_df, time_selection,
                   strategy_selection, data_df, monthly_comfort>>

\* pet_df[pet_df['Sun'] == flag].copy()
SunRows(frame, flag) == SelectSeq(frame, LAMBDA r : r.Sun = flag)

\* Lines 387-389.
SplitDayNight ==
    /\ pc = "split"
    /\ day_pet_df' = SunRows(pet_df, TRUE)
    /\ night_pet_df' = SunRows(pet_df, FALSE)
    /\ pc' = "ideal_day"
    /\ UNCHANGED <<error, petVars, pet_df, time_selection, strategy_selection,
                   data_df, monthly_comfort>>

day_pet_columns == PetColumns
night_pet_columns == <<"Fully Exposed PET", "Wind Sheltered PET">>

\* Faulty variant of IdealStrategy: .abs() left out, the least PET - 20.5 wins.
IdealStrategyNoAbs(row, columns) ==
    LET diff(k) == row.PET[ColumnIndex(PetColumns, columns[k])] - NeutralTarget
        best == CHOOSE k \in 1..Len(columns) :
                    /\ \A j \in 1..Len(columns) : diff(k) <= diff(j)
                    /\ \A j \in 1..(k - 1) : diff(j) > diff(k)
    IN  columns[best]

\* lambda row: row.sub(20.5).abs().idxmin() on row[columns]: the label of the
\* first column whose |PET - 20.5| is the least.
IdealStrategy(row, columns) ==
    LET dist(k) == Abs(row.PET[ColumnIndex(PetColumns, columns[k])] - NeutralTarget)
        best == CHOOSE k \in 1..Len(columns) :
                    /\ \A j \in 1..Len(columns) : dist(k) <= dist(j)
                    /\ \A j \in 1..(k - 1) : dist(j) > dist(k)
    IN  columns[best]

\* frame['Ideal Strategy'] = frame[columns].apply(lambda ..., axis=1)
WithIdealStrategy(frame, columns) ==
    [i \in 1..Len(frame) |->
        [Date |-> frame[i].Date, Sun |-> frame[i].Sun, PET |-> frame[i].PET,
         Category |-> frame[i].Category, Month |-> frame[i].Month,
         IdealStrategy |-> IdealStrategy(frame[i], columns)]]

\* The column list each apply call is given (lines 393 and 397): both calls
\* index the frame with day_pet_columns; night_pet_columns is assigned on
\* line 396 and never read.
DayApplyColumns == day_pet_columns
NightApplyColumns == day_pet_columns

\* Lines 391-393.
IdealDay ==
    /\ pc = "ideal_day"
    /\ day_pet_df' = WithIdealStrategy(day_pet_df, DayApplyColumns)
    /\ pc' = "ideal_night"
    /\ UNCHANGED <<error, petVars, pet_df, night_pet_df, time_selection,
                   strategy_selection, data_df, monthly_comfort>>

\* Lines 395-397.
IdealNight ==
    /\ pc = "ideal_night"
    /\ night_pet_df' = WithIdealStrategy(night_pet_df, NightApplyColumns)
    /\ pc' = "select"
    /\ UNCHANGED <<error, petVars, pet_df, day_pet_df, time_selection,
                   strategy_selection, data_df, monthly_comfort>>

comfort_categories ==
    <<"Very Cold", "Cold", "Cool", "Slightly Cool", "Comfort",
      "Slightly Warm", "Warm", "Hot", "Very Hot">>

\* Lines 404-409: if / elif on time_selection[0], with no else branch.
SelectedFrame(selection, day, night, current) ==
    IF selection[1] = "Daytime" THEN [bound |-> TRUE, rows |-> day]
    ELSE IF selection[1] = "Nighttime" THEN [bound |-> TRUE, rows |-> night]
    ELSE current

SelectDataFrame ==
    /\ pc = "select"
    /\ data_df' = SelectedFrame(time_selection, day_pet_df, night_pet_df, data_df)
    /\ pc' = "monthly"
    /\ UNCHANGED <<error, petVars, pet_df, day_pet_df, night_pet_df,
                   time_selection, strategy_selection, monthly_comfort>>

----------------------------------------------------------------------------
(* calculate_monthly_comfort_percentages, lines 150-172.  A cell of the    *)
(* table is a float: an exact fraction num/den in lowest terms, or NaN.    *)

RECURSIVE GCD(_, _)
GCD(a, b) == IF b = 0 THEN a ELSE GCD(b, a % b)

NaN == [nan |-> TRUE, num |-> 0, den |-> 1]
Number(n, d) ==
    LET g == GCD(n, d)
    IN  [nan |-> FALSE, num |-> n \div g, den |-> d \div g]
Zero == Number(0, 1)

\* count / total * 100 of line 156; 0 / 0 is NaN.
Percent(count, total) == IF total = 0 THEN NaN ELSE Number(100 * count, total)

Add(x, y) ==
    IF x.nan \/ y.nan THEN NaN
    ELSE Number(x.num * y.den + y.num * x.den, x.den * y.den)

Range(seq) == {seq[k] : k \in 1..Len(seq)}

RECURSIVE SetToSeq(_)
SetToSeq(S) ==
    IF S = {} THEN << >>
    ELSE LET x == CHOOSE y \in S : TRUE IN <<x>> \o SetToSeq(S \ {x})

\* Line 153: df.groupby(month_column)[category_column].value_counts()
\* .unstack().fillna(0): one row per month that occurs in the frame, one
\* column per label that occurs in it, each cell the count (0 when the pair
\* does not occur).
GroupCounts(frame, category_column) ==
    LET col == ColumnIndex(CategoryColumns, category_column)
        months == {frame[i].Month : i \in 1..Len(frame)}
        labels == {frame[i].Category[col] : i \in 1..Len(frame)}
    IN  [m \in months |->
            [c \in labels |->
                Cardinality({i \in 1..Len(frame) :
                                /\ frame[i].Month = m
                                /\ frame[i].Category[col] = c})]]

\* monthly_data.sum(axis=1) for one row.
RECURSIVE SumCounts(_, _)
SumCounts(row, labels) ==
    IF labels = << >> THEN 0
    ELSE row[Head(labels)] + SumCounts(row, Tail(labels))

\* Line 156.
NormalizeToPercent(monthly_data) ==
    [m \in DOMAIN monthly_data |->
        [c \in DOMAIN monthly_data[m] |->
            Percent(monthly_data[m][c],
                    SumCounts(monthly_data[m], SetToSeq(DOMAIN monthly_data[m])))]]

\* Lines 158-163: a missing label gets a column of 0, and the columns are
\* taken in the order of comfort_categories.
EnsureCategories(percentages, labels, categories) ==
    IF categories = << >>
    THEN [columns |-> SetToSeq(labels), cells |-> percentages]
    ELSE [columns |-> categories,
          cells |-> [m \in DOMAIN percentages |->
                        [c \in Range(categories) |->
                            IF c \in labels THEN percentages[m][c] ELSE Zero]]]

\* Faulty variant of custom_month_order: the calendar order, January first.
calendar_month_order == <<1, 2, 3, 4, 5, 6, 7, 8, 9, 10, 11, 12>>

custom_month_order == <<12, 1, 2, 3, 4, 5, 6, 7, 8, 9, 10, 11>>

month_abbr == <<"Jan", "Feb", "Mar", "Apr", "May", "Jun",
                "Jul", "Aug", "Sep", "Oct", "Nov", "Dec">>

\* Line 167: DataFrame.reindex(order): the rows in the given order; a month
\* that is no row of the table gets a row of NaN.
Reindex(table, order) ==
    [k \in 1..Len(order) |->
        [index |-> order[k],
         cells |-> IF order[k] \in DOMAIN table.cells
                   THEN table.cells[order[k]]
                   ELSE [c \in Range(table.columns) |-> NaN]]]

\* Line 170: the 'Month' column.
WithMonthAbbr(rows) ==
    [k \in 1..Len(rows) |->
        [index |-> rows[k].index, cells |-> rows[k].cells,
         Month |-> month_abbr[rows[k].index]]]

calculate_monthly_comfort_percentages(frame, category_column, categories) ==
    LET monthly_data == GroupCounts(frame, category_column)
        labels == {frame[i].Category[ColumnIndex(CategoryColumns, category_column)] :
                      i \in 1..Len(frame)}
        table == EnsureCategories(NormalizeToPercent(monthly_data), labels, categories)
    IN  [columns |-> table.columns,
         rows |-> WithMonthAbbr(Reindex(table, custom_month_order))]

\* Lines 412-417: the call reads data_df; a name that neither branch of
\* lines 405-409 bound raises NameError.
MonthlyComfort ==
    /\ pc = "monthly"
    /\ IF data_df.bound
       THEN /\ monthly_comfort' =
                 calculate_monthly_comfort_percentages(
                     data_df.rows, strategy_selection, comfort_categories)
            /\ error' = error
       ELSE /\ error' = "NameError"
            /\ monthly_comfort' = monthly_comfort
    /\ pc' = "done"
    /\ UNCHANGED <<petVars, pet_df, day_pet_df, night_pet_df, time_selection,
                   strategy_selection, data_df>>

----------------------------------------------------------------------------
(* Inputs of the script specifications.                                    *)

\* Hours of the year the sampled rows are taken from: 1 and 2 January
\* 10:00, 11 February 16:00, 31 December 14:00.
SampleHours ==
    {Timestamp(1, 1, 10), Timestamp(1, 2, 10), Timestamp(2, 11, 16),
     Timestamp(12, 31, 14)}

SamplePets == {<<300, 250, 320, 270>>}
SampleCategories ==
    {<<"Warm", "Slightly Warm", "Hot", "Comfort">>,
     <<"Cool", "Cool", "Slightly Cool", "Slightly Cool">>,
     <<"Comfort", "Comfort", "Comfort", "Comfort">>}

Init ==
    InitScript(SampleHours, SamplePets, SampleCategories, TimeOptions,
               StrategyOptions, 2, MaxRows)

IdealSteps ==
    \/ AddMonth
    \/ SplitDayNight
    \/ IdealDay
    \/ IdealNight

Next ==
    \/ IdealSteps
    \/ SelectDataFrame
    \/ MonthlyComfort

Spec == Init /\ [][Next]_vars

\* PET values around the neutral target: far below, 1.5 below, the target
\* itself, 1.5 above.
PetGrid == {100, 190, 205, 220}
IdealHours == {Timestamp(6, 21, 12), Timestamp(6, 21, 23)}

InitIdeal ==
    InitScript(IdealHours, [1..4 -> PetGrid],
               {<<"Comfort", "Comfort", "Comfort", "Comfort">>},
               {"Daytime"}, {"Fully Exposed Category"}, 2, 2)

NextIdeal == IdealSteps

SpecIdeal == InitIdeal /\ [][NextIdeal]_vars

----------------------------------------------------------------------------
(* Claims about calculate_pet, checked under SpecPet.                      *)

PetComputed(x) == x # NoPET

\* C4: a run with met <= 0 or clo < 0 fails with InvalidParameter before
\* any MRT or PET scenario is computed and yields no year-table rows.
C4_InvalidParameterFailsFast ==
    InvalidParameter(met, clo) =>
        /\ exposed_mrt = << >> /\ sheltered_mrt = << >>
        /\ ~PetComputed(fully_exposed) /\ ~PetComputed(sun_sheltered)
        /\ ~PetComputed(wind_sheltered) /\ ~PetComputed(fully_sheltered)
        /\ df = << >>
        /\ (pc = "done" => error = "InvalidParameter")

ExpectedExposedMRT(i) ==
    MeanRadiantTemperature(epw_data.location, i,
        DirectNormalAt(epw_data.weather, i), DiffuseHorizontalAt(epw_data.weather, i),
        HorizontalInfraredAt(epw_data.weather, i), TemperatureAt(epw_data.weather, i))
ExpectedShelteredMRT(i) ==
    MeanRadiantTemperature(epw_data.location, i, 0, 0,
        HorizontalInfraredAt(epw_data.weather, i), TemperatureAt(epw_data.weather, i))
ExpectedPET(i, mrt, v) ==
    PhysiologicEquivalentTemperature(TemperatureAt(epw_data.weather, i),
        HumidityAt(epw_data.weather, i), mrt, v, met, clo)

\* C6: once the four PET series exist, at every hour Fully Exposed is the PET
\* of (exposed MRT, real wind), Sun Sheltered of (sheltered MRT, real wind),
\* Wind Sheltered of (exposed MRT, zero wind), Fully Sheltered of (sheltered
\* MRT, zero wind); the sheltered MRT has direct-normal and diffuse-horizontal
\* irradiance zeroed, and both MRTs take the infrared and the air temperature
\* of the weather file unchanged.
C6_ScenarioPairs ==
    PetComputed(fully_exposed) =>
        \A i \in Hours :
            /\ exposed_mrt[i] = ExpectedExposedMRT(i)
            /\ sheltered_mrt[i] = ExpectedShelteredMRT(i)
            /\ fully_exposed.physiologic_equivalent_temperature[i] =
                  ExpectedPET(i, ExpectedExposedMRT(i), WindAt(epw_data.weather, i))
            /\ sun_sheltered.physiologic_equivalent_temperature[i] =
                  ExpectedPET(i, ExpectedShelteredMRT(i), WindAt(epw_data.weather, i))
            /\ wind_sheltered.physiologic_equivalent_temperature[i] =
                  ExpectedPET(i, ExpectedExposedMRT(i), 0)
            /\ fully_sheltered.physiologic_equivalent_temperature[i] =
                  ExpectedPET(i, ExpectedShelteredMRT(i), 0)

\* An hour with sun and wind: the four scenarios give four different values.
C6_Witness ==
    /\ pc = "done" /\ error = "none"
    /\ \E i \in 1..HoursPerDay :
          /\ WindAt(epw_data.weather, i) > 0
          /\ DirectNormalAt(epw_data.weather, i) > 0
          /\ Cardinality({df[i].PET[k] : k \in 1..4}) = 4

Scenario(k) ==
    CASE k = 1 -> fully_exposed
      [] k = 2 -> sun_sheltered
      [] k = 3 -> wind_sheltered
      [] k = 4 -> fully_sheltered

\* C7: a run that the estimator does not reject returns exactly 8760 records,
\* one per hour: timestamps start at 2025-01-01 00:00, rise by one hour from
\* record to record and end at 2025-12-31 23:00 of the 365-day year, and
\* record i holds the sun-up flag, the PET value and the category label of
\* hour index i of each of the four scenarios.
C7_YearTable ==
    (pc = "done" /\ error # "InvalidParameter") =>
        /\ error = "none"
        /\ Len(df) = HoursInYear
        /\ Len(df) = DaysBefore(13) * HoursPerDay
        /\ DaysBefore(13) = 365
        /\ df[1].Date = Timestamp(1, 1, 0)
        /\ df[Len(df)].Date = Timestamp(12, 31, 23)
        /\ \A i \in 1..(Len(df) - 1) : df[i + 1].Date = df[i].Date + 1
        /\ \A i \in 1..Len(df) :
              /\ df[i].Sun = is_during_day(epw_data.location, i - 1)
              /\ \A k \in 1..4 :
                    /\ df[i].PET[k] =
                          Scenario(k).physiologic_equivalent_temperature[i]
                    /\ df[i].Category[k] = temp_map[Scenario(k).pet_category[i]]

C7_Witness ==
    /\ pc = "done" /\ error = "none"
    /\ Len(df) = HoursInYear
    /\ df[1].Sun = FALSE /\ df[13].Sun = TRUE
    /\ MonthOf(df[Len(df)].Date) = 12

----------------------------------------------------------------------------
(* Claims about the ideal strategy, checked under SpecIdeal.               *)

IdealDone == pc \in {"select", "monthly", "done"}

\* C1: every night-time row (sun-up false) gets an ideal-strategy label among
\* Fully Exposed and Wind Sheltered, whatever its four PET values are.
C1_NightLabelNeverSunDependent ==
    IdealDone =>
        \A i \in 1..Len(night_pet_df) :
            night_pet_df[i].IdealStrategy \in Range(night_pet_columns)

Distance(row, k) == Abs(row.PET[k] - NeutralTarget)

\* C10: every daytime row (sun-up true) of pet_df is a row of day_pet_df whose
\* ideal-strategy label names one of the four PET columns, and no column of
\* that row is strictly nearer to 20.5 than the named one.
C10_DayLabelIsNearestToNeutral ==
    (pc = "ideal_night" \/ IdealDone) =>
        \A i \in 1..Len(pet_df) :
            pet_df[i].Sun =>
                \E j \in 1..Len(day_pet_df) :
                    /\ day_pet_df[j].Date = pet_df[i].Date
                    /\ day_pet_df[j].PET = pet_df[i].PET
                    /\ day_pet_df[j].IdealStrategy \in Range(PetColumns)
                    /\ \A k \in 1..4 :
                          Distance(pet_df[i],
                                   ColumnIndex(PetColumns, day_pet_df[j].IdealStrategy))
                            <= Distance(pet_df[i], k)

\* A daytime row whose nearest column is the last one while the first holds
\* the least PET value.
C10_Witness ==
    /\ IdealDone
    /\ \E j \in 1..Len(day_pet_df) :
          /\ day_pet_df[j].IdealStrategy = "Fully Sheltered PET"
          /\ day_pet_df[j].PET[1] < day_pet_df[j].PET[4]
          /\ day_pet_df[j].PET[2] < day_pet_df[j].PET[4]

----------------------------------------------------------------------------
(* Claims about the filter and the monthly table, checked under Spec.      *)

TableReturned == pc = "done" /\ error = "none"

\* The records of data_df that fall in month m.
RowsOfMonth(m) == {i \in 1..Len(data_df.rows) : data_df.rows[i].Month = m}

\* The labels of the selected category column among the records of month m.
LabelsOfMonth(m) ==
    {data_df.rows[i].Category[ColumnIndex(CategoryColumns, strategy_selection)] :
        i \in RowsOfMonth(m)}

RECURSIVE SumCells(_, _)
SumCells(cells, columns) ==
    IF columns = << >> THEN Zero
    ELSE Add(cells[Head(columns)], SumCells(cells, Tail(columns)))

\* C2: in the returned table, the row of a month with no matching record has
\* all nine percentages equal to 0 (not NaN).
C2_EmptyMonthIsAllZero ==
    TableReturned =>
        \A k \in 1..Len(monthly_comfort.rows) :
            RowsOfMonth(monthly_comfort.rows[k].index) = {} =>
                \A c \in Range(comfort_categories) :
                    monthly_comfort.rows[k].cells[c] = Zero

Keeps(selection, sun) ==
    CASE selection = "Daytime" -> sun
      [] selection = "Nighttime" -> ~sun
      [] selection = "Entire Day" -> TRUE

\* C3: for each of the three filter values the run ends with a monthly table
\* computed over the filtered records: Daytime the rows with sun-up true,
\* Nighttime those with sun-up false, Entire Day all rows.
C3_FilterSelectsRecords ==
    pc = "done" =>
        /\ error = "none"
        /\ data_df.bound
        /\ {r.Date : r \in Range(data_df.rows)} =
              {r.Date : r \in {x \in Range(pet_df) : Keeps(time_selection[1], x.Sun)}}
        /\ monthly_comfort # NoTable

\* C5: in the returned table the nine percentages of a month's row sum to 100
\* when the month has a matching record and to 0 when it has none.
C5_RowsSumTo100OrZero ==
    TableReturned =>
        \A k \in 1..Len(monthly_comfort.rows) :
            SumCells(monthly_comfort.rows[k].cells, comfort_categories) =
                IF RowsOfMonth(monthly_comfort.rows[k].index) # {}
                THEN Number(100, 1) ELSE Zero

\* The half of C5 that the code keeps: the row of a month with a matching
\* record sums to 100.
C5_PopulatedRowsSumTo100 ==
    TableReturned =>
        \A k \in 1..Len(monthly_comfort.rows) :
            RowsOfMonth(monthly_comfort.rows[k].index) # {} =>
                SumCells(monthly_comfort.rows[k].cells, comfort_categories) =
                    Number(100, 1)

\* C8: the returned table has a column for each of the nine labels, and a
\* label that no matching record of a month carries has percentage 0 in that
\* month's row.
C8_AbsentCategoryIsZero ==
    TableReturned =>
        /\ monthly_comfort.columns = comfort_categories
        /\ \A k \in 1..Len(monthly_comfort.rows) :
              /\ DOMAIN monthly_comfort.rows[k].cells = Range(comfort_categories)
              /\ \A c \in Range(comfort_categories) :
                    c \notin LabelsOfMonth(monthly_comfort.rows[k].index) =>
                        monthly_comfort.rows[k].cells[c] = Zero

\* The part of C8 that the code keeps: nine columns, and 0 for a label absent
\* from a month that has a matching record.
C8_AbsentCategoryIsZeroInPopulatedMonths ==
    TableReturned =>
        /\ monthly_comfort.columns = comfort_categories
        /\ \A k \in 1..Len(monthly_comfort.rows) :
              /\ DOMAIN monthly_comfort.rows[k].cells = Range(comfort_categories)
              /\ \A c \in Range(comfort_categories) :
                    (/\ RowsOfMonth(monthly_comfort.rows[k].index) # {}
                     /\ c \notin LabelsOfMonth(monthly_comfort.rows[k].index)) =>
                        monthly_comfort.rows[k].cells[c] = Zero

\* C9: the returned table has exactly twelve rows, December first and then
\* January to November, whichever months occur in the filtered records, and
\* each row carries the abbreviation of its own month.
C9_TwelveRowsDecemberFirst ==
    TableReturned =>
        /\ Len(monthly_comfort.rows) = 12
        /\ [k \in 1..12 |-> monthly_comfort.rows[k].index] =
              <<12, 1, 2, 3, 4, 5, 6, 7, 8, 9, 10, 11>>
        /\ [k \in 1..12 |-> monthly_comfort.rows[k].Month] =
              <<"Dec", "Jan", "Feb", "Mar", "Apr", "May", "Jun", "Jul", "Aug",
                "Sep", "Oct", "Nov">>

\* A table built from records of January and February only: December has no
\* record and still heads the table.
C9_Witness ==
    /\ TableReturned
    /\ RowsOfMonth(12) = {}
    /\ RowsOfMonth(1) # {}
    /\ RowsOfMonth(2) # {}
    /\ Len(monthly_comfort.rows) = 12

====
